---------------------------- MODULE Spec2Model ----------------------------
(***************************************************************************)
(* A state-machine model of the animated scenes of neural_network.py and   *)
(* autonomous_agent.py.                                                    *)
(*                                                                         *)
(* A scene is a straight-line script of play / wait / add calls on the     *)
(* rendering framework.  One action of the model is one such call (or one  *)
(* iteration of a scripted loop); `pc' is the position in construct(),     *)
(* `timeline' the calls made so far and `mobjects' what the scene holds.   *)
(*                                                                         *)
(* Numbers.  The scripts compute with Python floats.  The model computes   *)
(* with the exact real numbers those floats approximate: a number is an    *)
(* element of the field Q(t), t = 2*cos(18 degrees), t^4 = 5*t^2 - 5,      *)
(* written [c |-> <<c0,c1,c2,c3>>, d |-> d] for (c0+c1*t+c2*t^2+c3*t^3)/d  *)
(* in lowest terms.  Rationals are the elements with c1 = c2 = c3 = 0.     *)
(* This field holds the cosine and sine of every multiple of 18 degrees,   *)
(* which covers the angles of the loop diagram.  IEEE rounding (at most a  *)
(* few units in the 16th digit) is not modelled; the only comparison the   *)
(* scripts make, abs(new_x) < 0.1, is decided on values that are far       *)
(* apart (0.128, 0.0512) compared with that error.                         *)
(***************************************************************************)
EXTENDS Integers, Sequences, FiniteSets, TLC

----------------------------------------------------------------------------
(* Exact arithmetic in Q(t).                                               *)

Abs(n) == IF n < 0 THEN 0 - n ELSE n

RECURSIVE Gcd(_, _)
Gcd(a, b) == IF b = 0 THEN a ELSE Gcd(b, a % b)

Gcd4(c, d) == Gcd(Gcd(Gcd(Gcd(d, Abs(c[1])), Abs(c[2])), Abs(c[3])), Abs(c[4]))

\* An operator's argument is evaluated anew at each of its uses; the
\* operators below take the value of each argument once, as the members of
\* a one-element set, before they compute with it.

\* The number (c[1] + c[2]*t + c[3]*t^2 + c[4]*t^3) / d, d # 0, in lowest
\* terms with a positive denominator.
Norm(c, d) ==
    LET lowest(cc, dd) ==
            LET g == Gcd4(cc, Abs(dd))
                s == IF dd < 0 THEN 0 - 1 ELSE 1
            IN  [c |-> <<(s * cc[1]) \div g, (s * cc[2]) \div g,
                         (s * cc[3]) \div g, (s * cc[4]) \div g>>,
                 d |-> Abs(dd) \div g]
    IN  CHOOSE v_ \in {lowest(a_, b_) : a_ \in {c}, b_ \in {d}} : TRUE

\* The rational n/d.
R(n, d) == Norm(<<n, 0, 0, 0>>, d)

Z(n) == R(n, 1)

\* t = 2*cos(18 degrees).
T == Norm(<<0, 1, 0, 0>>, 1)

Add(x, y) ==
    LET sum(u, v) ==
            LET l == u.d * (v.d \div Gcd(u.d, v.d))
                a == l \div u.d
                b == l \div v.d
            IN  Norm(<<a * u.c[1] + b * v.c[1], a * u.c[2] + b * v.c[2],
                       a * u.c[3] + b * v.c[3], a * u.c[4] + b * v.c[4]>>, l)
    IN  CHOOSE v_ \in {sum(a_, b_) : a_ \in {x}, b_ \in {y}} : TRUE

Neg(x) ==
    LET minus(u) == [c |-> <<0 - u.c[1], 0 - u.c[2], 0 - u.c[3], 0 - u.c[4]>>,
                     d |-> u.d]
    IN  CHOOSE v_ \in {minus(a_) : a_ \in {x}} : TRUE

Sub(x, y) == Add(x, Neg(y))

\* The product of two polynomials in t of degree <= 3, reduced with
\* t^4 = 5t^2 - 5, t^5 = 5t^3 - 5t, t^6 = 20t^2 - 25.
Mul(x, y) ==
    LET product(u, v) ==
            LET a == u.c
                b == v.c
                p0 == a[1] * b[1]
                p1 == a[1] * b[2] + a[2] * b[1]
                p2 == a[1] * b[3] + a[2] * b[2] + a[3] * b[1]
                p3 == a[1] * b[4] + a[2] * b[3] + a[3] * b[2] + a[4] * b[1]
                p4 == a[2] * b[4] + a[3] * b[3] + a[4] * b[2]
                p5 == a[3] * b[4] + a[4] * b[3]
                p6 == a[4] * b[4]
            IN  Norm(<<p0 - 5 * p4 - 25 * p6, p1 - 5 * p5,
                       p2 + 5 * p4 + 20 * p6, p3 + 5 * p5>>, u.d * v.d)
    IN  CHOOSE v_ \in {product(a_, b_) : a_ \in {x}, b_ \in {y}} : TRUE

IsRat(x) == x.c[2] = 0 /\ x.c[3] = 0 /\ x.c[4] = 0

\* x / y for a rational y # 0.
Div(x, y) ==
    LET quotient(u, v) == Mul(u, R(v.d, v.c[1]))
    IN  CHOOSE v_ \in {quotient(a_, b_) : a_ \in {x}, b_ \in {y}} : TRUE

\* Order and absolute value of rationals.
Less(x, y) ==
    LET below(u, v) == u.c[1] * v.d < v.c[1] * u.d
    IN  CHOOSE v_ \in {below(a_, b_) : a_ \in {x}, b_ \in {y}} : TRUE

AbsR(x) ==
    LET magnitude(u) == IF u.c[1] < 0 THEN Neg(u) ELSE u
    IN  CHOOSE v_ \in {magnitude(a_) : a_ \in {x}} : TRUE

RECURSIVE Pow(_, _)
Pow(x, n) == IF n = 0 THEN Z(1) ELSE Mul(x, Pow(x, n - 1))

----------------------------------------------------------------------------
(* The state of a render.                                                  *)

VARIABLES
    scene,        \* the scene class named on the command line
    pc,           \* position in that scene's construct()
    error,        \* "none", or the exception that ended the render
    timeline,     \* the play / wait / add calls made so far, in order
    mobjects,     \* the mobjects the scene holds
    x_tracker,    \* GradientDescentVisualization: the ValueTracker's value
    step,         \* GradientDescentVisualization: loop iterations completed
    x_history,    \* the values x_tracker has held, oldest first
    layer_sizes,  \* NeuralNetworkScene: create_network's layer_sizes
    network,      \* NeuralNetworkScene: what create_network returned
    labels,       \* NeuralNetworkScene: what create_layer_labels returned
    connections,  \* NeuralNetworkScene: what create_connections returned
    layer_idx,    \* animate_forward_pass: the loop variable (0-based)
    signals,      \* animate_forward_pass: the signal dots of this iteration
    bars,         \* show_output_result: the probability bars built
    nodes_data,   \* CompoundLoopScene: the (text, angle) list of the loop
    nodes,        \* CompoundLoopScene: the node rectangles
    arrows,       \* CompoundLoopScene: the arrows between the nodes
    dot,          \* CompoundLoopScene: the flow dot's centre (<<>>: none yet)
    lap,          \* CompoundLoopScene: the outer loop variable `_'
    i,            \* CompoundLoopScene: the inner loop variable (0-based)
    days_data,    \* KnowledgeCompoundingScene: the (day, learning) list
    pattern_idx,  \* KnowledgeCompoundingScene: next unused pattern (0-based)
    gotcha_idx,   \* KnowledgeCompoundingScene: next unused gotcha (0-based)
    day,          \* KnowledgeCompoundingScene: the loop variable i (0-based)
    shown         \* KnowledgeCompoundingScene: the items added to the file

gdVars == <<x_tracker, step, x_history>>
nnVars == <<layer_sizes, network, labels, connections, layer_idx, signals,
            bars>>
clVars == <<nodes_data, nodes, arrows, dot, lap, i>>
kcVars == <<days_data, pattern_idx, gotcha_idx, day, shown>>
notGD == <<nnVars, clVars, kcVars>>
notNN == <<gdVars, clVars, kcVars>>
notCL == <<gdVars, nnVars, kcVars>>
notKC == <<gdVars, nnVars, clVars>>
sceneVars == <<gdVars, nnVars, clVars, kcVars>>
vars == <<scene, pc, error, timeline, mobjects, x_tracker, step, x_history,
          layer_sizes, network, labels, connections, layer_idx, signals,
          bars, nodes_data, nodes, arrows, dot, lap, i, days_data,
          pattern_idx, gotcha_idx, day, shown>>

\* A mobject of the scene: its kind and up to two indices (0 when unused).
Mob(k, a, b) == [k |-> k, a |-> a, b |-> b]

M(k) == Mob(k, 0, 0)

\* One call on the framework: the section of construct() it belongs to, the
\* call, and an index for calls made in a loop.
Call(ph, an, arg) == [phase |-> ph, anim |-> an, arg |-> arg]

\* construct() moves from `at' to `to' by making the call (ph, an, arg).
Goes(at, to, ph, an, arg) ==
    /\ pc = at
    /\ error = "none"
    /\ pc' = to
    /\ timeline' = Append(timeline, Call(ph, an, arg))
    /\ UNCHANGED <<scene, error>>

\* construct() goes on from `at' to `to' without a call on the framework.
Computes(at, to) ==
    /\ pc = at
    /\ error = "none"
    /\ pc' = to
    /\ UNCHANGED <<scene, error, timeline, mobjects>>

\* The statement at `at' raises `exc' and the render ends there.
Raises(at, exc) ==
    /\ pc = at
    /\ error = "none"
    /\ error' = exc
    /\ UNCHANGED <<scene, pc, timeline, mobjects>>

\* The call adds `ms' to the scene (Write, FadeIn, Create, Grow..., add).
Shows(ms) == mobjects' = mobjects \cup ms

\* The call removes `ms' from the scene (FadeOut).
Hides(ms) == mobjects' = mobjects \ ms

----------------------------------------------------------------------------
(* GradientDescentVisualization.construct                                  *)

\* ValueTracker(2)
x0 == Z(2)

\* A slip of the decimal point in the learning rate.
learning_rate_slip == R(2, 10)

learning_rate == R(3, 10)

\* range(8)
max_steps == 8

\* abs(new_x) < 0.1
threshold == R(1, 10)

\* The derivative taken without its factor 2.
gradient_without_factor(current_x) == current_x

\* gradient = 2 * current_x
gradient(current_x) == Mul(Z(2), current_x)

\* The step taken up the slope instead of down.
new_x_ascends(current_x) ==
    Add(current_x, Mul(learning_rate, gradient(current_x)))

\* new_x = current_x - learning_rate * gradient
new_x(current_x) == Sub(current_x, Mul(learning_rate, gradient(current_x)))

\* lambda x: x**2 + 1
loss(x) == Add(Mul(x, x), Z(1))

\* axes.plot(..., x_range=[-2.5, 2.5])
loss_curve_x_range == <<Neg(R(25, 10)), R(25, 10)>>

\* Axes(x_range=[-3, 3, 1], y_range=[0, 10, 2])
axes_x_range == <<Neg(Z(3)), Z(3)>>

axes_y_range == <<Z(0), Z(10)>>

\* A loop without its early exit.
converged_never(x) == FALSE

\* if abs(new_x) < 0.1: break
converged(x) == Less(AbsR(x), threshold)

GD_WriteTitle ==
    /\ Goes("gd_title", "gd_title_wait", "title", "Write(title)", 0)
    /\ Shows({M("title")})
    /\ UNCHANGED <<gdVars, notGD>>

GD_TitleWait ==
    /\ Goes("gd_title_wait", "gd_title_edge", "title", "wait", 0)
    /\ UNCHANGED <<mobjects, gdVars, notGD>>

GD_TitleToEdge ==
    /\ Goes("gd_title_edge", "gd_axes", "title", "title.animate.to_edge", 0)
    /\ Shows({M("title")})
    /\ UNCHANGED <<gdVars, notGD>>

GD_CreateAxes ==
    /\ Goes("gd_axes", "gd_axes_wait", "axes", "Create(axes,loss_curve)", 0)
    /\ Shows({M("axes"), M("loss_curve"), M("loss_label")})
    /\ UNCHANGED <<gdVars, notGD>>

GD_AxesWait ==
    /\ Goes("gd_axes_wait", "gd_ball", "axes", "wait", 0)
    /\ UNCHANGED <<mobjects, gdVars, notGD>>

\* x_tracker = ValueTracker(2); self.add(ball)
GD_AddBall ==
    /\ Goes("gd_ball", "gd_explanation", "ball", "add(ball)", 0)
    /\ Shows({M("ball")})
    /\ x_tracker' = x0
    /\ x_history' = <<x0>>
    /\ step' = 0
    /\ UNCHANGED notGD

GD_WriteExplanation ==
    /\ Goes("gd_explanation", "gd_loop", "ball", "Write(explanation)", 0)
    /\ Shows({M("explanation")})
    /\ UNCHANGED <<gdVars, notGD>>

\* One iteration of `for step in range(8)': the update is animated, and the
\* loop is left by break or because the range is exhausted.
GD_Step ==
    LET nx == new_x(x_tracker)
    IN  /\ step < max_steps
        /\ Goes("gd_loop",
                IF converged(nx) \/ step + 1 >= max_steps
                    THEN "gd_success" ELSE "gd_loop",
                "descent", "x_tracker.animate.set_value", step + 1)
        /\ Shows({M("x_tracker")})
        /\ x_tracker' = nx
        /\ x_history' = Append(x_history, nx)
        /\ step' = step + 1
        /\ UNCHANGED notGD

GD_Celebrate ==
    /\ Goes("gd_success", "gd_final_wait", "success", "Write(success)", 0)
    /\ mobjects' = (mobjects \cup {M("success")}) \ {M("explanation")}
    /\ UNCHANGED <<gdVars, notGD>>

GD_FinalWait ==
    /\ Goes("gd_final_wait", "done", "success", "wait", 0)
    /\ UNCHANGED <<mobjects, gdVars, notGD>>

GradientDescentVisualization ==
    \/ GD_WriteTitle \/ GD_TitleWait \/ GD_TitleToEdge \/ GD_CreateAxes
    \/ GD_AxesWait \/ GD_AddBall \/ GD_WriteExplanation \/ GD_Step
    \/ GD_Celebrate \/ GD_FinalWait

----------------------------------------------------------------------------
(* NeuralNetworkScene: the layout functions.                               *)

\* layer_sizes = [4, 6, 6, 3]
default_layer_sizes == <<4, 6, 6, 3>>

layer_spacing == R(5, 2)

\* the literal 0.8 of create_network
row_spacing == R(4, 5)

\* colors[min(layer_idx, len(colors) - 1)], layer_idx 0-based
get_layer_color(idx) ==
    LET colors == <<"BLUE", "GREEN", "GREEN", "ORANGE">>
    IN  colors[(IF idx < Len(colors) - 1 THEN idx ELSE Len(colors) - 1) + 1]

\* total_width = (len(layer_sizes) - 1) * layer_spacing
total_width(sizes) == Mul(Z(Len(sizes) - 1), layer_spacing)

x_offset_not_negated(sizes) == Div(total_width(sizes), Z(2))

\* x_offset = -total_width / 2
x_offset(sizes) == Div(Neg(total_width(sizes)), Z(2))

\* total_height = (size - 1) * 0.8
total_height(size) == Mul(Z(size - 1), row_spacing)

y_offset_not_halved(size) == total_height(size)

\* y_offset = total_height / 2
y_offset(size) == Div(total_height(size), Z(2))

\* [x, y, 0] of neuron neuron_idx of layer idx (both 0-based)
neuron_position(sizes, idx, neuron_idx) ==
    <<Add(x_offset(sizes), Mul(Z(idx), layer_spacing)),
      Sub(y_offset(sizes[idx + 1]), Mul(Z(neuron_idx), row_spacing)),
      Z(0)>>

\* len(range(n)): range(n) is empty for n <= 0.
range_len(n) == IF n < 0 THEN 0 ELSE n

\* The dictionary create_network returns.  A layer of size <= 0 has no
\* neurons.
create_network(sizes) ==
    LET positions ==
            [l \in 1..Len(sizes) |->
                [n \in 1..range_len(sizes[l]) |-> neuron_position(sizes, l - 1, n - 1)]]
    IN  [layers |->
            [l \in 1..Len(sizes) |->
                [n \in 1..range_len(sizes[l]) |->
                    [center |-> positions[l][n],
                     color |-> get_layer_color(l - 1),
                     fill_opacity |-> R(3, 10),
                     stroke_width |-> 2]]],
         positions |-> positions,
         sizes |-> sizes]

layer_names == <<"Input Layer", "Hidden Layer 1", "Hidden Layer 2", "Output Layer">>

Min(a, b) == IF a < b THEN a ELSE b

\* zip(network["layers"], layer_names) stops at the shorter of the two.
create_layer_labels(net) ==
    [l \in 1..Min(Len(net.layers), Len(layer_names)) |->
        [text |-> layer_names[l], color |-> get_layer_color(l - 1), layer |-> l]]

Line(pos1, pos2) == [start |-> pos1, end |-> pos2]

\* for pos2 in next_layer: connections.append(Line(pos1, pos2))
RECURSIVE lines_from(_, _, _)
lines_from(pos1, next_layer, j) ==
    IF j > Len(next_layer) THEN <<>>
    ELSE <<Line(pos1, next_layer[j])>> \o lines_from(pos1, next_layer, j + 1)

\* for pos1 in current_layer: ...
RECURSIVE lines_between(_, _, _)
lines_between(current_layer, next_layer, k) ==
    IF k > Len(current_layer) THEN <<>>
    ELSE lines_from(current_layer[k], next_layer, 1)
            \o lines_between(current_layer, next_layer, k + 1)

\* for layer_idx in range(len(positions) - 1): ...   (l = layer_idx + 1)
RECURSIVE lines_of_layers(_, _)
lines_of_layers(positions, l) ==
    IF l > Len(positions) - 1 THEN <<>>
    ELSE lines_between(positions[l], positions[l + 1], 1)
            \o lines_of_layers(positions, l + 1)

create_connections_from_second(net) == lines_of_layers(net.positions, 2)

\* for layer_idx in range(len(positions) - 1): starts at layer_idx = 0
create_connections(net) == lines_of_layers(net.positions, 1)

----------------------------------------------------------------------------
(* NeuralNetworkScene.construct and the methods it calls.                  *)
(*                                                                         *)
(* What the framework does with a play call that has nothing to animate    *)
(* (no animation at all, or an animation of a group without members) is    *)
(* not decided by this repository: depending on the framework's version it *)
(* renders nothing or raises.  Both outcomes are kept.                     *)

has_empty_layer(net) ==
    Len(net.layers) = 0 \/ \E l \in 1..Len(net.layers) : Len(net.layers[l]) = 0

NN_WriteTitle ==
    /\ Goes("nn_title", "nn_subtitle", "title", "Write(title)", 0)
    /\ Shows({M("title")})
    /\ UNCHANGED <<nnVars, notNN>>

NN_FadeInSubtitle ==
    /\ Goes("nn_subtitle", "nn_title_wait", "title", "FadeIn(subtitle)", 0)
    /\ Shows({M("subtitle")})
    /\ UNCHANGED <<nnVars, notNN>>

NN_TitleWait ==
    /\ Goes("nn_title_wait", "nn_title_out", "title", "wait", 0)
    /\ UNCHANGED <<mobjects, nnVars, notNN>>

NN_FadeOutTitle ==
    /\ Goes("nn_title_out", "nn_create_network", "title",
            "FadeOut(title,subtitle)", 0)
    /\ Hides({M("title"), M("subtitle")})
    /\ UNCHANGED <<nnVars, notNN>>

\* network = self.create_network()
NN_CreateNetwork ==
    /\ Computes("nn_create_network", "nn_layers")
    /\ network' = create_network(layer_sizes)
    /\ UNCHANGED <<layer_sizes, labels, connections, layer_idx, signals, bars,
                   notNN>>

NN_GrowLayers ==
    /\ pc = "nn_layers"
    /\ \/ /\ Goes("nn_layers", "nn_layers_wait", "layers",
                  "LaggedStart(GrowFromCenter(layer))", 0)
          /\ Shows({Mob("layer", l, 0) : l \in 1..Len(network.layers)})
       \/ /\ has_empty_layer(network)
          /\ Raises("nn_layers", "FrameworkError")
    /\ UNCHANGED <<nnVars, notNN>>

NN_LayersWait ==
    /\ Goes("nn_layers_wait", "nn_create_labels", "layers", "wait", 0)
    /\ UNCHANGED <<mobjects, nnVars, notNN>>

\* labels = self.create_layer_labels(network)
NN_CreateLayerLabels ==
    /\ Computes("nn_create_labels", "nn_labels")
    /\ labels' = create_layer_labels(network)
    /\ UNCHANGED <<layer_sizes, network, connections, layer_idx, signals, bars,
                   notNN>>

NN_WriteLabels ==
    /\ pc = "nn_labels"
    /\ \/ /\ Goes("nn_labels", "nn_labels_wait", "labels",
                  "LaggedStart(Write(label))", 0)
          /\ Shows({Mob("label", l, 0) : l \in 1..Len(labels)})
       \/ /\ labels = <<>>
          /\ Raises("nn_labels", "FrameworkError")
    /\ UNCHANGED <<nnVars, notNN>>

NN_LabelsWait_skips ==
    /\ Goes("nn_labels_wait", "nn_fp_text", "labels", "wait", 0)
    /\ UNCHANGED <<mobjects, nnVars, notNN>>

NN_LabelsWait ==
    /\ Goes("nn_labels_wait", "nn_create_connections", "labels", "wait", 0)
    /\ UNCHANGED <<mobjects, nnVars, notNN>>

\* connections = self.create_connections(network)
NN_CreateConnections ==
    /\ Computes("nn_create_connections", "nn_connections")
    /\ connections' = create_connections(network)
    /\ UNCHANGED <<layer_sizes, network, labels, layer_idx, signals, bars,
                   notNN>>

NN_DrawConnections ==
    /\ pc = "nn_connections"
    /\ \/ /\ Goes("nn_connections", "nn_connections_wait", "connections",
                  "LaggedStart(Create(conn))", 0)
          /\ Shows({Mob("connection", k, 0) : k \in 1..Len(connections)})
       \/ /\ connections = <<>>
          /\ Raises("nn_connections", "FrameworkError")
    /\ UNCHANGED <<nnVars, notNN>>

NN_ConnectionsWait ==
    /\ Goes("nn_connections_wait", "nn_fp_text", "connections", "wait", 0)
    /\ UNCHANGED <<mobjects, nnVars, notNN>>

\* activation = neuron.copy(); set_fill(color, opacity=0.8); set_stroke(width=3)
\* and Transform(neuron, activation)
activate(neuron, color) ==
    [neuron EXCEPT !.color = color, !.fill_opacity = R(4, 5), !.stroke_width = 3]

activate_layer(net, l, color) ==
    [net EXCEPT !.layers[l] =
        [n \in 1..Len(net.layers[l]) |-> activate(net.layers[l][n], color)]]

FP_WriteText ==
    /\ Goes("nn_fp_text", "nn_fp_input", "forward_pass", "Write(text)", 0)
    /\ Shows({M("fp_text")})
    /\ UNCHANGED <<nnVars, notNN>>

\* layers[0] raises IndexError when there is no layer.
FP_ActivateInput ==
    /\ pc = "nn_fp_input"
    /\ \/ /\ Len(network.layers) > 0
          /\ Goes("nn_fp_input",
                  IF Len(network.positions) - 1 > 0
                      THEN "nn_fp_signals" ELSE "nn_fp_out",
                  "forward_pass", "LaggedStart(Transform(layers[0]))", 0)
          /\ Shows({Mob("layer", 1, 0)})
          /\ network' = activate_layer(network, 1, "BLUE")
          /\ layer_idx' = 0
       \/ /\ Len(network.layers) > 0
          /\ Len(network.layers[1]) = 0
          /\ Raises("nn_fp_input", "FrameworkError")
          /\ UNCHANGED <<network, layer_idx>>
       \/ /\ Len(network.layers) = 0
          /\ Raises("nn_fp_input", "IndexError")
          /\ UNCHANGED <<network, layer_idx>>
    /\ UNCHANGED <<layer_sizes, labels, connections, signals, bars, notNN>>

\* The signals are added and the next layer is activated at once.
FP_AddSignals_then_activates ==
    LET current_layer == network.positions[layer_idx + 1]
        next_layer == network.positions[layer_idx + 2]
    IN  /\ pc = "nn_fp_signals"
        /\ \/ /\ Len(next_layer) = 0 \/ Len(current_layer) > 0
              /\ Goes("nn_fp_signals", "nn_fp_activate", "forward_pass",
                      "add(signals)", layer_idx)
              /\ Shows({Mob("signal", layer_idx, m) : m \in 1..Len(next_layer)})
              /\ signals' = [m \in 1..Len(next_layer) |->
                                [point |-> current_layer[1]]]
           \/ /\ Len(next_layer) > 0
              /\ Len(current_layer) = 0
              /\ Raises("nn_fp_signals", "IndexError")
              /\ UNCHANGED signals
        /\ UNCHANGED <<layer_sizes, network, labels, connections, layer_idx,
                       bars, notNN>>

\* One dot per neuron of the next layer, each at current_layer[0], which
\* raises IndexError when the current layer has no neuron; self.add(*signals).
FP_AddSignals ==
    LET current_layer == network.positions[layer_idx + 1]
        next_layer == network.positions[layer_idx + 2]
    IN  /\ pc = "nn_fp_signals"
        /\ \/ /\ Len(next_layer) = 0 \/ Len(current_layer) > 0
              /\ Goes("nn_fp_signals", "nn_fp_move", "forward_pass",
                      "add(signals)", layer_idx)
              /\ Shows({Mob("signal", layer_idx, m) : m \in 1..Len(next_layer)})
              /\ signals' = [m \in 1..Len(next_layer) |->
                                [point |-> current_layer[1]]]
           \/ /\ Len(next_layer) > 0
              /\ Len(current_layer) = 0
              /\ Raises("nn_fp_signals", "IndexError")
              /\ UNCHANGED signals
        /\ UNCHANGED <<layer_sizes, network, labels, connections, layer_idx,
                       bars, notNN>>

\* signal.animate.move_to(next_layer[i]) for i, signal in enumerate(signals)
FP_MoveSignals ==
    LET next_layer == network.positions[layer_idx + 2]
    IN  /\ pc = "nn_fp_move"
        /\ \/ /\ Goes("nn_fp_move", "nn_fp_activate", "forward_pass",
                      "signal.animate.move_to", layer_idx)
              /\ Shows({Mob("signal", layer_idx, m) : m \in 1..Len(signals)})
              /\ signals' = [m \in 1..Len(signals) |->
                                [point |-> next_layer[m]]]
           \/ /\ signals = <<>>
              /\ Raises("nn_fp_move", "FrameworkError")
              /\ UNCHANGED signals
        /\ UNCHANGED <<layer_sizes, network, labels, connections, layer_idx,
                       bars, notNN>>

\* The next layer is activated and the signals stay in the scene.
FP_ActivateNext_keeps_signals ==
    /\ pc = "nn_fp_activate"
    /\ \/ /\ Goes("nn_fp_activate",
                  IF layer_idx + 1 < Len(network.positions) - 1
                      THEN "nn_fp_signals" ELSE "nn_fp_out",
                  "forward_pass", "LaggedStart(Transform(layers[layer_idx+1]))",
                  layer_idx)
          /\ Shows({Mob("layer", layer_idx + 2, 0)})
          /\ network' = activate_layer(network, layer_idx + 2,
                                       get_layer_color(layer_idx + 1))
          /\ layer_idx' = IF layer_idx + 1 < Len(network.positions) - 1
                              THEN layer_idx + 1 ELSE layer_idx
       \/ /\ Len(network.layers[layer_idx + 2]) = 0
          /\ Raises("nn_fp_activate", "FrameworkError")
          /\ UNCHANGED <<network, layer_idx>>
    /\ UNCHANGED <<layer_sizes, labels, connections, signals, bars, notNN>>

\* The next layer is activated and the signals fade out; then the loop
\* goes on with layer_idx + 1 or is left.
FP_ActivateNext ==
    /\ pc = "nn_fp_activate"
    /\ \/ /\ Goes("nn_fp_activate",
                  IF layer_idx + 1 < Len(network.positions) - 1
                      THEN "nn_fp_signals" ELSE "nn_fp_out",
                  "forward_pass", "LaggedStart(Transform(layers[layer_idx+1]))",
                  layer_idx)
          /\ mobjects' = (mobjects \cup {Mob("layer", layer_idx + 2, 0)})
                            \ {Mob("signal", layer_idx, m) : m \in 1..Len(signals)}
          /\ network' = activate_layer(network, layer_idx + 2,
                                       get_layer_color(layer_idx + 1))
          /\ layer_idx' = IF layer_idx + 1 < Len(network.positions) - 1
                              THEN layer_idx + 1 ELSE layer_idx
       \/ /\ Len(network.layers[layer_idx + 2]) = 0
          /\ Raises("nn_fp_activate", "FrameworkError")
          /\ UNCHANGED <<network, layer_idx>>
    /\ UNCHANGED <<layer_sizes, labels, connections, signals, bars, notNN>>

FP_FadeOutText ==
    /\ Goes("nn_fp_out", "nn_or_text", "forward_pass", "FadeOut(text)", 0)
    /\ Hides({M("fp_text")})
    /\ UNCHANGED <<nnVars, notNN>>

animate_forward_pass ==
    \/ FP_WriteText \/ FP_ActivateInput \/ FP_AddSignals \/ FP_MoveSignals
    \/ FP_ActivateNext \/ FP_FadeOutText

\* output_layer = network["layers"][-1]
output_layer(net) == net.layers[Len(net.layers)]

probs == <<R(15, 100), R(75, 100), R(10, 100)>>

class_labels == <<"Cat", "Dog", "Bird">>

\* zip(output_layer, probs, labels) stops at the shortest of the three.
make_bars(net) ==
    [m \in 1..Min(Len(output_layer(net)), Min(Len(probs), Len(class_labels))) |->
        [label |-> class_labels[m], prob |-> probs[m],
         width |-> Mul(probs[m], Z(2))]]

OR_WriteText ==
    /\ Goes("nn_or_text", "nn_or_pulse1", "output_result", "Write(text)", 0)
    /\ Shows({M("or_text")})
    /\ UNCHANGED <<nnVars, notNN>>

OR_Pulse1 ==
    /\ pc = "nn_or_pulse1"
    /\ \/ /\ Goes("nn_or_pulse1", "nn_or_pulse2", "output_result",
                  "output_layer.animate.scale", 1)
          /\ Shows({Mob("layer", Len(network.layers), 0)})
       \/ /\ Len(output_layer(network)) = 0
          /\ Raises("nn_or_pulse1", "FrameworkError")
    /\ UNCHANGED <<nnVars, notNN>>

OR_Pulse2 ==
    /\ pc = "nn_or_pulse2"
    /\ \/ /\ Goes("nn_or_pulse2", "nn_or_build_bars", "output_result",
                  "output_layer.animate.scale", 2)
          /\ Shows({Mob("layer", Len(network.layers), 0)})
       \/ /\ Len(output_layer(network)) = 0
          /\ Raises("nn_or_pulse2", "FrameworkError")
    /\ UNCHANGED <<nnVars, notNN>>

\* for i, (neuron, prob, label) in enumerate(zip(...)): bars.add(bar, prob_label)
OR_BuildBars ==
    /\ Computes("nn_or_build_bars", "nn_or_bars")
    /\ bars' = make_bars(network)
    /\ UNCHANGED <<layer_sizes, network, labels, connections, layer_idx,
                   signals, notNN>>

\* bars[i*2] and bars[i*2+1] for i in range(3): IndexError when fewer than
\* three bars were built.
OR_ShowBars ==
    /\ pc = "nn_or_bars"
    /\ \/ /\ Len(bars) >= 3
          /\ Goes("nn_or_bars", "nn_or_winner", "output_result",
                  "LaggedStart(GrowFromEdge(bar)),LaggedStart(FadeIn(prob_label))",
                  0)
          /\ Shows({Mob("bar", m, 0) : m \in 1..3}
                      \cup {Mob("prob_label", m, 0) : m \in 1..3})
       \/ /\ Len(bars) < 3
          /\ Raises("nn_or_bars", "IndexError")
    /\ UNCHANGED <<nnVars, notNN>>

OR_WriteWinner ==
    /\ Goes("nn_or_winner", "nn_or_wait", "output_result", "Write(winner_text)", 0)
    /\ Shows({M("winner_text")})
    /\ UNCHANGED <<nnVars, notNN>>

OR_Wait ==
    /\ Goes("nn_or_wait", "nn_or_out", "output_result", "wait", 0)
    /\ UNCHANGED <<mobjects, nnVars, notNN>>

OR_FadeOut ==
    /\ Goes("nn_or_out", "nn_closing_wait", "output_result",
            "FadeOut(text,winner_text,bars)", 0)
    /\ Hides({M("or_text"), M("winner_text")}
                \cup {Mob("bar", m, 0) : m \in 1..Len(bars)}
                \cup {Mob("prob_label", m, 0) : m \in 1..Len(bars)})
    /\ UNCHANGED <<nnVars, notNN>>

show_output_result ==
    \/ OR_WriteText \/ OR_Pulse1 \/ OR_Pulse2 \/ OR_BuildBars \/ OR_ShowBars
    \/ OR_WriteWinner \/ OR_Wait \/ OR_FadeOut

NN_ClosingWait ==
    /\ Goes("nn_closing_wait", "nn_closing", "closing", "wait", 0)
    /\ UNCHANGED <<mobjects, nnVars, notNN>>

NN_WriteClosing ==
    /\ Goes("nn_closing", "nn_final_wait", "closing", "Write(closing)", 0)
    /\ Shows({M("closing")})
    /\ UNCHANGED <<nnVars, notNN>>

NN_FinalWait ==
    /\ Goes("nn_final_wait", "done", "closing", "wait", 0)
    /\ UNCHANGED <<mobjects, nnVars, notNN>>

NeuralNetworkScene ==
    \/ NN_WriteTitle \/ NN_FadeInSubtitle \/ NN_TitleWait \/ NN_FadeOutTitle
    \/ NN_CreateNetwork \/ NN_GrowLayers \/ NN_LayersWait
    \/ NN_CreateLayerLabels \/ NN_WriteLabels \/ NN_LabelsWait
    \/ NN_CreateConnections \/ NN_DrawConnections \/ NN_ConnectionsWait
    \/ animate_forward_pass
    \/ show_output_result
    \/ NN_ClosingWait \/ NN_WriteClosing \/ NN_FinalWait

----------------------------------------------------------------------------
(* CompoundLoopScene: the circular layout.                                 *)

\* An angle in radians is kept as its rational multiple of pi, so
\* DEGREES = TAU / 360 = pi / 180 is 1/180.
DEGREES == R(1, 180)

\* <<2*cos(k*18 deg), 2*cos((k-1)*18 deg)>>, by
\* 2*cos((k+1)a) = 2*cos(a) * 2*cos(k*a) - 2*cos((k-1)a).
cheb_step(p) ==
    LET next(q) == <<Sub(Mul(T, q[1]), q[2]), q[1]>>
    IN  CHOOSE v_ \in {next(a_) : a_ \in {p}} : TRUE

RECURSIVE cheb(_)
cheb(k) == IF k = 0 THEN <<Z(2), T>> ELSE cheb_step(cheb(k - 1))

\* np.cos(rad) for rad = r*pi, r a multiple of 1/10: the angle is k*18 degrees
\* with k taken modulo 20, cos(360 - a) = cos(a) and cos(180 - a) = -cos(a)
\* bring it to 0..90 degrees.
cos(r) ==
    LET folded(j) == IF j > 5 THEN Neg(Div(cheb(10 - j)[1], Z(2)))
                              ELSE Div(cheb(j)[1], Z(2))
        turn(k) == folded(IF k > 10 THEN 20 - k ELSE k)
        of(u) ==
            CHOOSE v_ \in {turn(a_) : a_ \in {(u.c[1] * (10 \div u.d)) % 20}} : TRUE
    IN  CHOOSE v_ \in {of(a_) : a_ \in {r}} : TRUE

\* np.sin(rad) = cos(pi/2 - rad)
sin(r) == cos(Sub(R(1, 2), r))

ORIGIN == <<Z(0), Z(0), Z(0)>>

center == ORIGIN

radius == R(22, 10)

default_nodes_data_typo ==
    <<[text |-> "Report", angle |-> 90],
      [text |-> "PRD", angle |-> 18],
      [text |-> "Tasks", angle |-> 0 - 54],
      [text |-> "Implement", angle |-> 0 - 144],
      [text |-> "PR", angle |-> 0 - 198]>>

default_nodes_data ==
    <<[text |-> "Report", angle |-> 90],
      [text |-> "PRD", angle |-> 18],
      [text |-> "Tasks", angle |-> 0 - 54],
      [text |-> "Implement", angle |-> 0 - 126],
      [text |-> "PR", angle |-> 0 - 198]>>

node_position_cos_twice(angle) ==
    LET rad == Mul(Z(angle), DEGREES)
    IN  <<Add(center[1], Mul(radius, cos(rad))),
          Add(center[2], Mul(radius, cos(rad))),
          Add(center[3], Mul(radius, Z(0)))>>

\* rad = angle * DEGREES
\* pos = center + radius * np.array([np.cos(rad), np.sin(rad), 0])
node_position(angle) ==
    LET rad == Mul(Z(angle), DEGREES)
    IN  <<Add(center[1], Mul(radius, cos(rad))),
          Add(center[2], Mul(radius, sin(rad))),
          Add(center[3], Mul(radius, Z(0)))>>

\* RoundedRectangle(fill_color=COLORS["primary"], fill_opacity=0.8).move_to(pos)
make_node(angle) ==
    [center |-> node_position(angle), fill_color |-> "primary",
     fill_opacity |-> R(4, 5)]

make_nodes(data) == [k \in 1..Len(data) |-> make_node(data[k].angle)]

\* The arrow from nodes[k] to nodes[(k + 1) % len(nodes)] (k 0-based).  The
\* script insets both ends by 0.95 along the unit direction; only the two
\* centres are kept here.
make_arrows(ns) ==
    [k \in 1..Len(ns) |->
        [tail |-> ns[k].center, head |-> ns[(k % Len(ns)) + 1].center]]

\* direction / np.linalg.norm(direction) is 0/0 for an arrow whose ends
\* coincide: numpy yields nan, and what the framework draws from nan is its
\* own business.
has_degenerate_arrow(as) == \E k \in 1..Len(as) : as[k].tail = as[k].head

set_fill_keeps_color(node, color, opacity) ==
    [node EXCEPT !.fill_opacity = opacity]

set_fill(node, color, opacity) ==
    [node EXCEPT !.fill_color = color, !.fill_opacity = opacity]

CL_WriteTitle ==
    /\ Goes("cl_title", "cl_title_wait", "title", "Write(title)", 0)
    /\ Shows({M("title")})
    /\ UNCHANGED <<clVars, notCL>>

CL_TitleWait ==
    /\ Goes("cl_title_wait", "cl_build_nodes", "title", "wait", 0)
    /\ UNCHANGED <<mobjects, clVars, notCL>>

\* for text, subtext, angle in nodes_data: ... nodes.append(node)
CL_BuildNodes ==
    /\ Computes("cl_build_nodes", "cl_nodes")
    /\ nodes' = make_nodes(nodes_data)
    /\ UNCHANGED <<nodes_data, arrows, dot, lap, i, notCL>>

CL_GrowNodes ==
    /\ pc = "cl_nodes"
    /\ \/ /\ Goes("cl_nodes", "cl_build_arrows", "nodes",
                  "LaggedStart(GrowFromCenter(node),FadeIn(label))", 0)
          /\ Shows({Mob("node", k, 0) : k \in 1..Len(nodes)}
                      \cup {Mob("label", k, 0) : k \in 1..Len(nodes)}
                      \cup {Mob("sublabel", k, 0) : k \in 1..Len(nodes)})
       \/ /\ nodes = <<>>
          /\ Raises("cl_nodes", "FrameworkError")
    /\ UNCHANGED <<clVars, notCL>>

\* for i in range(len(nodes)): ... arrows.append(arrow)
CL_BuildArrows ==
    /\ Computes("cl_build_arrows", "cl_arrows")
    /\ arrows' = make_arrows(nodes)
    /\ UNCHANGED <<nodes_data, nodes, dot, lap, i, notCL>>

CL_GrowArrows ==
    /\ pc = "cl_arrows"
    /\ \/ /\ Goes("cl_arrows", "cl_dot", "arrows",
                  "LaggedStart(GrowArrow(arrow))", 0)
          /\ Shows({Mob("arrow", k, 0) : k \in 1..Len(arrows)})
       \/ /\ arrows = <<>> \/ has_degenerate_arrow(arrows)
          /\ Raises("cl_arrows", "FrameworkError")
    /\ UNCHANGED <<clVars, notCL>>

\* dot.move_to(nodes[0].get_center()) raises IndexError without nodes.
CL_FadeInDot ==
    /\ pc = "cl_dot"
    /\ \/ /\ Len(nodes) > 0
          /\ Goes("cl_dot", "cl_highlight", "flow", "FadeIn(dot)", 0)
          /\ Shows({M("dot")})
          /\ dot' = nodes[1].center
          /\ lap' = 0
          /\ i' = 0
       \/ /\ Len(nodes) = 0
          /\ Raises("cl_dot", "IndexError")
          /\ UNCHANGED <<dot, lap, i>>
    /\ UNCHANGED <<nodes_data, nodes, arrows, notCL>>

next_idx_skips(k, n) == (k + 2) % n

\* next_idx = (i + 1) % len(nodes)
next_idx(k, n) == (k + 1) % n

\* nodes[i].animate.set_fill(COLORS["accent"], opacity=0.9)
CL_Highlight ==
    /\ Goes("cl_highlight", "cl_move", "flow", "nodes[i].animate.set_fill",
            lap * Len(nodes) + i)
    /\ Shows({Mob("node", i + 1, 0)})
    /\ nodes' = [nodes EXCEPT ![i + 1] = set_fill(@, "accent", R(9, 10))]
    /\ UNCHANGED <<nodes_data, arrows, dot, lap, i, notCL>>

\* The dot moves to nodes[next_idx] while nodes[i] gets its fill back; then
\* the loops go on or are left.
CL_MoveDot ==
    LET more_i == i + 1 < Len(nodes)
        more_laps == lap + 1 < 2
    IN  /\ Goes("cl_move",
                IF more_i \/ more_laps THEN "cl_highlight" ELSE "cl_dot_out",
                "flow", "dot.animate.move_to", lap * Len(nodes) + i)
        /\ Shows({M("dot"), Mob("node", i + 1, 0)})
        /\ dot' = nodes[next_idx(i, Len(nodes)) + 1].center
        /\ nodes' = [nodes EXCEPT ![i + 1] = set_fill(@, "primary", R(4, 5))]
        /\ i' = IF more_i THEN i + 1 ELSE IF more_laps THEN 0 ELSE i
        /\ lap' = IF ~more_i /\ more_laps THEN lap + 1 ELSE lap
        /\ UNCHANGED <<nodes_data, arrows, notCL>>

CL_FadeOutDot ==
    /\ Goes("cl_dot_out", "cl_repeat", "flow", "FadeOut(dot)", 0)
    /\ Hides({M("dot")})
    /\ UNCHANGED <<clVars, notCL>>

CL_WriteRepeat ==
    /\ Goes("cl_repeat", "cl_final_wait", "repeat", "Write(repeat_text)", 0)
    /\ Shows({M("repeat_text")})
    /\ UNCHANGED <<clVars, notCL>>

CL_FinalWait ==
    /\ Goes("cl_final_wait", "done", "repeat", "wait", 0)
    /\ UNCHANGED <<mobjects, clVars, notCL>>

CompoundLoopScene ==
    \/ CL_WriteTitle \/ CL_TitleWait \/ CL_BuildNodes \/ CL_GrowNodes
    \/ CL_BuildArrows \/ CL_GrowArrows
    \/ CL_FadeInDot \/ CL_Highlight \/ CL_MoveDot \/ CL_FadeOutDot
    \/ CL_WriteRepeat \/ CL_FinalWait

----------------------------------------------------------------------------
(* KnowledgeCompoundingScene.construct                                     *)

\* A learning is its text and the words of {"Pattern", "Gotcha"} that occur
\* in it, which is all the script asks of it.
Learning(text, words) == [text |-> text, words |-> words]

default_days_data ==
    <<[day |-> "Day 1",
       learning |-> Learning("Pattern: Use h3 for subsections", {"Pattern"})],
      [day |-> "Day 2",
       learning |-> Learning("Gotcha: Mermaid needs code blocks", {"Gotcha"})],
      [day |-> "Day 3",
       learning |-> Learning("Pattern: Progressive disclosure", {"Pattern"})],
      [day |-> "Day 4",
       learning |-> Learning("Gotcha: Build before commit", {"Gotcha"})],
      [day |-> "Day 5",
       learning |-> Learning("Pattern: Consistent link format", {"Pattern"})]>>

new_patterns ==
    <<"h3 for subsections", "Progressive disclosure", "Consistent link format">>

new_gotchas == <<"Mermaid needs code blocks", "Build before commit">>

\* word in learning
contains(learning, word) == word \in learning.words

pattern_arm_ignores_word(learning, p_idx) == p_idx < Len(new_patterns)

\* "Pattern" in learning and pattern_idx < len(new_patterns)
pattern_arm(learning, p_idx) ==
    contains(learning, "Pattern") /\ p_idx < Len(new_patterns)

\* The elif: reached when the if fails.
\* "Gotcha" in learning and gotcha_idx < len(new_gotchas)
gotcha_arm(learning, p_idx, g_idx) ==
    /\ ~pattern_arm(learning, p_idx)
    /\ contains(learning, "Gotcha")
    /\ g_idx < Len(new_gotchas)

KC_WriteTitle ==
    /\ Goes("kc_title", "kc_file_box", "title", "Write(title)", 0)
    /\ Shows({M("title")})
    /\ UNCHANGED <<kcVars, notKC>>

KC_GrowFileBox ==
    /\ Goes("kc_file_box", "kc_initial", "file", "GrowFromCenter(file_box)", 0)
    /\ Shows({M("file_box")})
    /\ UNCHANGED <<kcVars, notKC>>

KC_FadeInInitial ==
    /\ Goes("kc_initial", "kc_timeline_title", "file",
            "FadeIn(initial_content)", 0)
    /\ Shows({M("initial_content")})
    /\ UNCHANGED <<kcVars, notKC>>

\* After the timeline title the lists are prepared and the loop over the
\* days starts with pattern_idx = gotcha_idx = 0; it has no iteration when
\* there is no day.
KC_WriteTimelineTitle ==
    /\ Goes("kc_timeline_title",
            IF Len(days_data) > 0 THEN "kc_day" ELSE "kc_message",
            "timeline_title", "Write(timeline_title)", 0)
    /\ Shows({M("timeline_title")})
    /\ pattern_idx' = 0
    /\ gotcha_idx' = 0
    /\ day' = 0
    /\ UNCHANGED <<days_data, shown, notKC>>

KC_ShowDay ==
    /\ Goes("kc_day", "kc_arrow", "days", "FadeIn(day_group)", day)
    /\ Shows({Mob("day_group", day, 0)})
    /\ UNCHANGED <<kcVars, notKC>>

KC_GrowArrow ==
    /\ Goes("kc_arrow", "kc_item", "days", "GrowArrow(arrow)", day)
    /\ Shows({Mob("arrow", day, 0)})
    /\ UNCHANGED <<kcVars, notKC>>

\* The item of a day is added and pattern_idx is left as it was.
KC_AddItem_same_pattern ==
    /\ pc = "kc_item"
    /\ LET learning == days_data[day + 1].learning
       IN  \/ /\ pattern_arm(learning, pattern_idx)
              /\ Goes("kc_item", "kc_arrow_out", "days",
                      "FadeIn(new_patterns[pattern_idx])", pattern_idx)
              /\ Shows({Mob("pattern", pattern_idx, 0)})
              /\ shown' = Append(shown, [list |-> "new_patterns",
                                         idx |-> pattern_idx,
                                         text |-> new_patterns[pattern_idx + 1],
                                         day |-> day])
              /\ pattern_idx' = pattern_idx
              /\ UNCHANGED gotcha_idx
           \/ /\ gotcha_arm(learning, pattern_idx, gotcha_idx)
              /\ Goes("kc_item", "kc_arrow_out", "days",
                      "FadeIn(new_gotchas[gotcha_idx])", gotcha_idx)
              /\ Shows({Mob("gotcha", gotcha_idx, 0)})
              /\ shown' = Append(shown, [list |-> "new_gotchas",
                                         idx |-> gotcha_idx,
                                         text |-> new_gotchas[gotcha_idx + 1],
                                         day |-> day])
              /\ gotcha_idx' = gotcha_idx + 1
              /\ UNCHANGED pattern_idx
           \/ /\ ~pattern_arm(learning, pattern_idx)
              /\ ~gotcha_arm(learning, pattern_idx, gotcha_idx)
              /\ Computes("kc_item", "kc_arrow_out")
              /\ UNCHANGED <<shown, pattern_idx, gotcha_idx>>
    /\ UNCHANGED <<days_data, day, notKC>>

\* The if / elif on the day's learning: one pattern, one gotcha, or nothing.
KC_AddItem ==
    /\ pc = "kc_item"
    /\ LET learning == days_data[day + 1].learning
       IN  \/ /\ pattern_arm(learning, pattern_idx)
              /\ Goes("kc_item", "kc_arrow_out", "days",
                      "FadeIn(new_patterns[pattern_idx])", pattern_idx)
              /\ Shows({Mob("pattern", pattern_idx, 0)})
              /\ shown' = Append(shown, [list |-> "new_patterns",
                                         idx |-> pattern_idx,
                                         text |-> new_patterns[pattern_idx + 1],
                                         day |-> day])
              /\ pattern_idx' = pattern_idx + 1
              /\ UNCHANGED gotcha_idx
           \/ /\ gotcha_arm(learning, pattern_idx, gotcha_idx)
              /\ Goes("kc_item", "kc_arrow_out", "days",
                      "FadeIn(new_gotchas[gotcha_idx])", gotcha_idx)
              /\ Shows({Mob("gotcha", gotcha_idx, 0)})
              /\ shown' = Append(shown, [list |-> "new_gotchas",
                                         idx |-> gotcha_idx,
                                         text |-> new_gotchas[gotcha_idx + 1],
                                         day |-> day])
              /\ gotcha_idx' = gotcha_idx + 1
              /\ UNCHANGED pattern_idx
           \/ /\ ~pattern_arm(learning, pattern_idx)
              /\ ~gotcha_arm(learning, pattern_idx, gotcha_idx)
              /\ Computes("kc_item", "kc_arrow_out")
              /\ UNCHANGED <<shown, pattern_idx, gotcha_idx>>
    /\ UNCHANGED <<days_data, day, notKC>>

\* The arrow fades out; then the loop goes on with the next day or is left.
KC_FadeOutArrow ==
    /\ pc = "kc_arrow_out"
    /\ Goes("kc_arrow_out",
            IF day + 1 < Len(days_data) THEN "kc_day" ELSE "kc_message",
            "days", "FadeOut(arrow)", day)
    /\ Hides({Mob("arrow", day, 0)})
    /\ day' = IF day + 1 < Len(days_data) THEN day + 1 ELSE day
    /\ UNCHANGED <<days_data, pattern_idx, gotcha_idx, shown, notKC>>

KC_WriteMessage ==
    /\ Goes("kc_message", "kc_final_wait", "message", "Write(message)", 0)
    /\ Shows({M("message")})
    /\ UNCHANGED <<kcVars, notKC>>

KC_FinalWait ==
    /\ Goes("kc_final_wait", "done", "message", "wait", 0)
    /\ UNCHANGED <<mobjects, kcVars, notKC>>

KnowledgeCompoundingScene ==
    \/ KC_WriteTitle \/ KC_GrowFileBox \/ KC_FadeInInitial
    \/ KC_WriteTimelineTitle
    \/ KC_ShowDay \/ KC_GrowArrow \/ KC_AddItem \/ KC_FadeOutArrow
    \/ KC_WriteMessage \/ KC_FinalWait

----------------------------------------------------------------------------
(* FullExplainerScene.construct                                            *)

\* What each section shows, and what the FadeOut call that ends it names.
title_shown == {M("title"), M("subtitle")}

title_faded == {M("title"), M("subtitle")}

problem_shown ==
    {M("problem_title"), M("human"), M("work_arrow"), M("code"),
     M("work_hours"), M("night_text")}

\* The fade-out of the problem section without the night text.
problem_faded_without_night ==
    {M("problem_title"), M("human"), M("work_arrow"), M("code"),
     M("work_hours")}

problem_faded ==
    {M("problem_title"), M("human"), M("work_arrow"), M("code"),
     M("work_hours"), M("night_text")}

solution_shown ==
    {M("solution_title"), M("day_group"), M("night_group"),
     M("morning_group"), M("arrow1"), M("arrow2"), M("progress_text")}

solution_faded ==
    {M("solution_title"), M("day_group"), M("night_group"),
     M("morning_group"), M("arrow1"), M("arrow2"), M("progress_text")}

\* LaggedStart(FadeIn(line) for line in compound) adds the four lines.
insight_shown ==
    {M("insight_title"), M("insight_text")}
        \cup {Mob("compound", k, 0) : k \in 0..3}

final_shown == {M("final")}

FE_WriteTitle ==
    /\ Goes("fe_title", "fe_subtitle", "title", "Write(title)", 0)
    /\ Shows({M("title")})
    /\ UNCHANGED sceneVars

FE_FadeInSubtitle ==
    /\ Goes("fe_subtitle", "fe_title_wait", "title", "FadeIn(subtitle)", 0)
    /\ Shows({M("subtitle")})
    /\ UNCHANGED sceneVars

FE_TitleWait ==
    /\ Goes("fe_title_wait", "fe_title_out", "title", "wait", 0)
    /\ UNCHANGED <<mobjects, sceneVars>>

FE_FadeOutTitle ==
    /\ Goes("fe_title_out", "fe_problem_title", "title",
            "FadeOut(title,subtitle)", 0)
    /\ Hides(title_faded)
    /\ UNCHANGED sceneVars

FE_WriteProblemTitle ==
    /\ Goes("fe_problem_title", "fe_workflow", "problem",
            "Write(problem_title)", 0)
    /\ Shows({M("problem_title")})
    /\ UNCHANGED sceneVars

FE_ShowWorkflow ==
    /\ Goes("fe_workflow", "fe_work_hours", "problem",
            "FadeIn(human),GrowArrow(work_arrow),FadeIn(code)", 0)
    /\ Shows({M("human"), M("work_arrow"), M("code")})
    /\ UNCHANGED sceneVars

FE_WriteWorkHours ==
    /\ Goes("fe_work_hours", "fe_problem_wait1", "problem",
            "Write(work_hours)", 0)
    /\ Shows({M("work_hours")})
    /\ UNCHANGED sceneVars

FE_ProblemWait1 ==
    /\ Goes("fe_problem_wait1", "fe_night", "problem", "wait", 1)
    /\ UNCHANGED <<mobjects, sceneVars>>

FE_WriteNight ==
    /\ Goes("fe_night", "fe_problem_wait2", "problem", "Write(night_text)", 0)
    /\ Shows({M("night_text")})
    /\ UNCHANGED sceneVars

FE_ProblemWait2 ==
    /\ Goes("fe_problem_wait2", "fe_problem_out", "problem", "wait", 2)
    /\ UNCHANGED <<mobjects, sceneVars>>

FE_FadeOutProblem ==
    /\ Goes("fe_problem_out", "fe_solution_title", "problem",
            "FadeOut(problem)", 0)
    /\ Hides(problem_faded)
    /\ UNCHANGED sceneVars

FE_WriteSolutionTitle ==
    /\ Goes("fe_solution_title", "fe_cycle", "solution",
            "Write(solution_title)", 0)
    /\ Shows({M("solution_title")})
    /\ UNCHANGED sceneVars

FE_ShowCycle ==
    /\ Goes("fe_cycle", "fe_progress", "solution",
            "FadeIn(day_group,night_group,morning_group),GrowArrow(arrow1,arrow2)",
            0)
    /\ Shows({M("day_group"), M("night_group"), M("morning_group"),
              M("arrow1"), M("arrow2")})
    /\ UNCHANGED sceneVars

FE_WriteProgress ==
    /\ Goes("fe_progress", "fe_solution_wait", "solution",
            "Write(progress_text)", 0)
    /\ Shows({M("progress_text")})
    /\ UNCHANGED sceneVars

FE_SolutionWait ==
    /\ Goes("fe_solution_wait", "fe_solution_out", "solution", "wait", 0)
    /\ UNCHANGED <<mobjects, sceneVars>>

FE_FadeOutSolution ==
    /\ Goes("fe_solution_out", "fe_insight_title", "solution",
            "FadeOut(solution)", 0)
    /\ Hides(solution_faded)
    /\ UNCHANGED sceneVars

FE_WriteInsightTitle ==
    /\ Goes("fe_insight_title", "fe_insight_text", "insight",
            "Write(insight_title)", 0)
    /\ Shows({M("insight_title")})
    /\ UNCHANGED sceneVars

FE_WriteInsightText ==
    /\ Goes("fe_insight_text", "fe_compound", "insight",
            "Write(insight_text)", 0)
    /\ Shows({M("insight_text")})
    /\ UNCHANGED sceneVars

FE_FadeInCompound ==
    /\ Goes("fe_compound", "fe_insight_wait", "insight",
            "LaggedStart(FadeIn(line))", 0)
    /\ Shows({Mob("compound", k, 0) : k \in 0..3})
    /\ UNCHANGED sceneVars

FE_InsightWait ==
    /\ Goes("fe_insight_wait", "fe_fade_all", "insight", "wait", 0)
    /\ UNCHANGED <<mobjects, sceneVars>>

\* self.play(*[FadeOut(mob) for mob in self.mobjects])
FE_FadeOutAll ==
    /\ Goes("fe_fade_all", "fe_final", "final", "FadeOut(self.mobjects)", 0)
    /\ Hides(mobjects)
    /\ UNCHANGED sceneVars

FE_WriteFinal ==
    /\ Goes("fe_final", "fe_final_wait", "final", "Write(final)", 0)
    /\ Shows(final_shown)
    /\ UNCHANGED sceneVars

FE_FinalWait ==
    /\ Goes("fe_final_wait", "done", "final", "wait", 0)
    /\ UNCHANGED <<mobjects, sceneVars>>

FullExplainerScene ==
    \/ FE_WriteTitle \/ FE_FadeInSubtitle \/ FE_TitleWait \/ FE_FadeOutTitle
    \/ FE_WriteProblemTitle \/ FE_ShowWorkflow \/ FE_WriteWorkHours
    \/ FE_ProblemWait1 \/ FE_WriteNight \/ FE_ProblemWait2
    \/ FE_FadeOutProblem
    \/ FE_WriteSolutionTitle \/ FE_ShowCycle \/ FE_WriteProgress
    \/ FE_SolutionWait \/ FE_FadeOutSolution
    \/ FE_WriteInsightTitle \/ FE_WriteInsightText \/ FE_FadeInCompound
    \/ FE_InsightWait \/ FE_FadeOutAll \/ FE_WriteFinal \/ FE_FinalWait

----------------------------------------------------------------------------
(* The render: the command line names the scene.                           *)

MaxLayers == 3

MaxSize == 3

\* The layer_sizes create_network is run on: the script's own, and every
\* list of at most MaxLayers sizes from -1 to MaxSize.
LayerConfigs ==
    {default_layer_sizes}
        \cup UNION {[1..n -> (0 - 1)..MaxSize] : n \in 0..MaxLayers}

MaxNodes == 2

AngleSteps == 5

\* The node lists the circular layout is run on: the script's own, and every
\* list of at most MaxNodes nodes at multiples of 18 degrees.
NodeConfigs ==
    {default_nodes_data}
        \cup UNION {[1..n -> [text : {"node"},
                              angle : {18 * k : k \in (0 - AngleSteps)..AngleSteps}]] :
                        n \in 0..MaxNodes}

MaxDays == 3

\* The day lists the loop of KnowledgeCompoundingScene is run on: the
\* script's own, and every list of at most MaxDays days whose learnings
\* hold "Pattern", "Gotcha", both or neither.
DayConfigs ==
    {default_days_data}
        \cup UNION {[1..n -> [day : {"Day"},
                              learning : {Learning("learning", w) :
                                  w \in SUBSET {"Pattern", "Gotcha"}}]] :
                        n \in 0..MaxDays}

Scenes ==
    {"NeuralNetworkScene", "GradientDescentVisualization", "CompoundLoopScene",
     "KnowledgeCompoundingScene", "FullExplainerScene"}

Start(sc) ==
    CASE sc = "NeuralNetworkScene" -> "nn_title"
      [] sc = "GradientDescentVisualization" -> "gd_title"
      [] sc = "CompoundLoopScene" -> "cl_title"
      [] sc = "KnowledgeCompoundingScene" -> "kc_title"
      [] sc = "FullExplainerScene" -> "fe_title"

Init ==
    /\ scene \in Scenes
    /\ pc = Start(scene)
    /\ error = "none"
    /\ timeline = <<>>
    /\ mobjects = {}
    /\ x_tracker = x0
    /\ x_history = <<>>
    /\ step = 0
    /\ layer_sizes \in IF scene = "NeuralNetworkScene"
                          THEN LayerConfigs ELSE {default_layer_sizes}
    /\ network = [layers |-> <<>>, positions |-> <<>>, sizes |-> <<>>]
    /\ labels = <<>>
    /\ connections = <<>>
    /\ layer_idx = 0
    /\ signals = <<>>
    /\ bars = <<>>
    /\ nodes_data \in IF scene = "CompoundLoopScene"
                         THEN NodeConfigs ELSE {default_nodes_data}
    /\ nodes = <<>>
    /\ arrows = <<>>
    /\ dot = <<>>
    /\ lap = 0
    /\ i = 0
    /\ days_data \in IF scene = "KnowledgeCompoundingScene"
                        THEN DayConfigs ELSE {default_days_data}
    /\ pattern_idx = 0
    /\ gotcha_idx = 0
    /\ day = 0
    /\ shown = <<>>

Next ==
    \/ NeuralNetworkScene
    \/ CompoundLoopScene
    \/ GradientDescentVisualization
    \/ KnowledgeCompoundingScene
    \/ FullExplainerScene

Spec == Init /\ [][Next]_vars

\* The render of GradientDescentVisualization when the statement construct()
\* has come to is eventually run: the interpreter runs the script statement
\* after statement and no call of the script blocks.
LiveSpec == Spec /\ WF_vars(GradientDescentVisualization)

----------------------------------------------------------------------------
(* Positions in a script.                                                  *)

InGD == scene = "GradientDescentVisualization"
InNN == scene = "NeuralNetworkScene"
InCL == scene = "CompoundLoopScene"
InKC == scene = "KnowledgeCompoundingScene"
InFE == scene = "FullExplainerScene"

\* The loop of GradientDescentVisualization has been left.
GDLoopLeft == InGD /\ pc \in {"gd_success", "gd_final_wait", "done"}

\* create_network has just returned: construct() is at the play call that
\* shows the layers.
NetworkBuilt == InNN /\ pc = "nn_layers"

\* create_connections has just returned.
ConnectionsBuilt == InNN /\ pc = "nn_connections"

\* The loop that computes the node positions has just run.
NodesBuilt == InCL /\ pc = "cl_nodes"

Range(f) == {f[k] : k \in DOMAIN f}

\* s[1] + ... + s[n] for a sequence s of numbers.
RECURSIVE SumTo(_, _)
SumTo(s, n) == IF n = 0 THEN Z(0) ELSE Add(SumTo(s, n - 1), s[n])

----------------------------------------------------------------------------
(* Gradient descent.                                                       *)

C1_Expected == <<Z(2), R(8, 10), R(32, 100), R(128, 1000), R(512, 10000)>>

\* C1: started at x0 = 2 with learning rate 0.3 and gradient 2*x the tracker
\* holds 2, 0.8, 0.32, 0.128, 0.0512 in turn; the loop is still running
\* after fewer than 4 updates and is left after exactly 4, because
\* |0.128| is not below 0.1 while |0.0512| is.
C1_FourUpdates ==
    InGD =>
        /\ Len(x_history) <= Len(C1_Expected)
        /\ \A n \in 1..Len(x_history) : x_history[n] = C1_Expected[n]
        /\ pc = "gd_loop" => step < 4
        /\ GDLoopLeft =>
            /\ step = 4
            /\ x_history = C1_Expected
            /\ ~Less(AbsR(x_history[4]), R(1, 10))
            /\ Less(AbsR(x_history[5]), R(1, 10))

C1_Witness == InGD /\ pc = "done" /\ step = 4 /\ x_tracker = R(512, 10000)

\* C2: the loop makes at most 8 updates, makes no update once an update
\* has produced a value with |x| < 0.1, and the success text is written in
\* every run.
C2_Terminates ==
    /\ [](InGD => step <= 8)
    /\ [][(InGD /\ step > 0 /\ Less(AbsR(x_tracker), R(1, 10)))
            => (x_tracker' = x_tracker /\ step' = step)]_vars
    /\ InGD ~> (GDLoopLeft /\ M("success") \in mobjects)

C2_Witness ==
    /\ GDLoopLeft
    /\ M("success") \in mobjects
    /\ step > 0
    /\ Less(AbsR(x_tracker), R(1, 10))

\* C3: after n updates, for every n up to the step at which the loop stops,
\* the tracker holds 2 * 0.4^n.
C3_ClosedForm ==
    (InGD /\ x_history # <<>>) =>
        /\ Len(x_history) = step + 1
        /\ x_tracker = x_history[step + 1]
        /\ \A n \in 0..step : x_history[n + 1] = Mul(Z(2), Pow(R(4, 10), n))

C3_Witness ==
    /\ GDLoopLeft
    /\ step = 4
    /\ x_history[5] = Mul(Z(2), Pow(R(4, 10), 4))

----------------------------------------------------------------------------
(* The network layout.                                                     *)

\* s[l]*s[l+1] + s[l+1]*s[l+2] + ... up to the last pair of s.
RECURSIVE PairProducts(_, _)
PairProducts(s, l) ==
    IF l >= Len(s) THEN 0 ELSE s[l] * s[l + 1] + PairProducts(s, l + 1)

\* The layers (1-based) that hold the position p.
LayersOf(p) ==
    {l \in 1..Len(network.positions) : p \in Range(network.positions[l])}

\* C4: create_connections returns exactly one line for every pair (neuron
\* of layer l, neuron of layer l+1) and no line between neurons of one
\* layer or of layers that are not adjacent; for layer sizes s_0..s_k that
\* is s_0*s_1 + ... + s_(k-1)*s_k lines, and 78 for the sizes 4, 6, 6, 3.
C4_OneLinePerAdjacentPair ==
    ConnectionsBuilt =>
        LET pos == network.positions
        IN  /\ \A l \in 1..(Len(pos) - 1) :
                  \A a \in 1..Len(pos[l]) : \A b \in 1..Len(pos[l + 1]) :
                      Cardinality({k \in 1..Len(connections) :
                          connections[k] = Line(pos[l][a], pos[l + 1][b])}) = 1
            /\ \A k \in 1..Len(connections) :
                  /\ LayersOf(connections[k].start) # {}
                  /\ LayersOf(connections[k].end) # {}
                  /\ \A l1 \in LayersOf(connections[k].start) :
                        \A l2 \in LayersOf(connections[k].end) : l2 = l1 + 1
            /\ (\A l \in 1..Len(layer_sizes) : layer_sizes[l] >= 0) =>
                  /\ \A l \in 1..Len(layer_sizes) : Len(pos[l]) = layer_sizes[l]
                  /\ Len(connections) = PairProducts(layer_sizes, 1)
            /\ layer_sizes = <<4, 6, 6, 3>> => Len(connections) = 78

C4_Witness ==
    /\ ConnectionsBuilt
    /\ layer_sizes = <<4, 6, 6, 3>>
    /\ Len(connections) = 4 * 6 + 6 * 6 + 6 * 3

\* The y-coordinates of layer l, top neuron first.
LayerYs(l) ==
    [n \in 1..Len(network.positions[l]) |-> network.positions[l][n][2]]

\* C5: in every layer of size s >= 1 consecutive neurons are 0.8 apart in
\* y, the first neuron is the highest and the last the lowest with
\* (s-1)*0.8 between them, and the y-coordinates of the layer sum to zero.
C5_RowsCentred ==
    NetworkBuilt =>
        \A l \in 1..Len(layer_sizes) :
            layer_sizes[l] >= 1 =>
                LET s == layer_sizes[l]
                    y == LayerYs(l)
                IN  /\ Len(y) = s
                    /\ \A n \in 1..(s - 1) : Sub(y[n], y[n + 1]) = R(8, 10)
                    /\ \A n \in 1..s : ~Less(y[1], y[n]) /\ ~Less(y[n], y[s])
                    /\ Sub(y[1], y[s]) = Mul(Z(s - 1), R(8, 10))
                    /\ SumTo(y, s) = Z(0)

C5_Witness ==
    /\ NetworkBuilt
    /\ layer_sizes = <<4, 6, 6, 3>>
    /\ LayerYs(2) = <<Z(2), R(12, 10), R(4, 10), R(0 - 4, 10), R(0 - 12, 10),
                      Z(0 - 2)>>

\* The x-coordinate of layer l (1-based), read off its first neuron.
LayerX(l) == network.positions[l][1][1]

\* C6: all neurons of layer i (0-based) of L layers have
\* x = -(L-1)*2.5/2 + i*2.5 = 5*(2i - L + 1)/4, consecutive layers are 2.5
\* apart, and the x-coordinates of the layers sum to zero.
C6_ColumnsCentred ==
    NetworkBuilt =>
        LET pos == network.positions
            L == Len(layer_sizes)
            full == \A l \in 1..L : Len(pos[l]) >= 1
        IN  /\ Len(pos) = L
            /\ \A l \in 1..L : \A n \in 1..Len(pos[l]) :
                  pos[l][n][1] = R(5 * (2 * (l - 1) - L + 1), 4)
            /\ \A l \in 1..(L - 1) :
                  (Len(pos[l]) >= 1 /\ Len(pos[l + 1]) >= 1) =>
                      Sub(LayerX(l + 1), LayerX(l)) = R(25, 10)
            /\ full => SumTo([l \in 1..L |-> LayerX(l)], L) = Z(0)

C6_Witness ==
    /\ NetworkBuilt
    /\ layer_sizes = <<4, 6, 6, 3>>
    /\ [l \in 1..4 |-> LayerX(l)]
          = <<R(0 - 375, 100), R(0 - 125, 100), R(125, 100), R(375, 100)>>

----------------------------------------------------------------------------
(* The circular layout.                                                    *)

\* The square of the distance between the points p and q.
Dist2(p, q) ==
    LET d == [k \in 1..3 |-> Sub(p[k], q[k])]
    IN  Add(Add(Mul(d[1], d[1]), Mul(d[2], d[2])), Mul(d[3], d[3]))

\* C7: every node of the loop, for every node list of one node or more,
\* lies at distance radius = 2.2 from the centre (compared as squares).
C7_OnTheCircle ==
    NodesBuilt =>
        /\ Len(nodes) = Len(nodes_data)
        /\ \A k \in 1..Len(nodes) :
              Dist2(nodes[k].center, ORIGIN) = Mul(R(22, 10), R(22, 10))

C7_Witness ==
    /\ NodesBuilt
    /\ Len(nodes) = 5
    /\ \E k \in 1..Len(nodes) :
          ~IsRat(nodes[k].center[1]) /\ ~IsRat(nodes[k].center[2])

\* C8: the five nodes of the loop are 360/5 = 72 degrees apart: each angle
\* exceeds the next one by 72 modulo 360, the last and the first included,
\* no two angles agree modulo 360, and so the five positions are distinct
\* with the same distance between every node and the next.
C8_EvenlySpaced ==
    (InCL /\ nodes_data = default_nodes_data) =>
        LET n == Len(nodes_data)
            angle(k) == nodes_data[k].angle
            next(k) == (k % n) + 1
        IN  /\ n = 5
            /\ angle(1) = 90
            /\ \A k \in 1..n : (angle(k) - angle(next(k))) % 360 = 360 \div n
            /\ \A j, k \in 1..n : j # k => angle(j) % 360 # angle(k) % 360
            /\ NodesBuilt =>
                /\ \A j, k \in 1..n : j # k => nodes[j].center # nodes[k].center
                /\ \A k \in 1..n :
                      Dist2(nodes[k].center, nodes[next(k)].center)
                          = Dist2(nodes[1].center, nodes[2].center)

C8_Witness ==
    /\ NodesBuilt
    /\ nodes_data = default_nodes_data
    /\ nodes[1].center = <<Z(0), R(22, 10), Z(0)>>
    /\ nodes[2].center # nodes[5].center

----------------------------------------------------------------------------
(* The order of the steps.                                                 *)

\* The sections of NeuralNetworkScene.construct, in the order written.
NNPhases ==
    <<"title", "layers", "labels", "connections", "forward_pass",
      "output_result", "closing">>

\* The sections the calls of tl belong to, each run of calls of one section
\* counted once.
RECURSIVE Sections(_)
Sections(tl) ==
    IF tl = <<>> THEN <<>>
    ELSE LET before == Sections(SubSeq(tl, 1, Len(tl) - 1))
             ph == tl[Len(tl)].phase
         IN  IF before # <<>> /\ before[Len(before)] = ph
                 THEN before ELSE Append(before, ph)

\* C9: the calls of NeuralNetworkScene come section by section in the order
\* title, layers, labels, connections, forward pass, output result,
\* closing: no section is entered twice or before the one written before
\* it, a finished render has gone through each exactly once, and the
\* script's own network renders to the end.
C9_SectionsInOrder ==
    InNN =>
        LET done == Sections(timeline)
        IN  /\ Len(done) <= Len(NNPhases)
            /\ \A k \in 1..Len(done) : done[k] = NNPhases[k]
            /\ pc = "done" => done = NNPhases
            /\ layer_sizes = <<4, 6, 6, 3>> => error = "none"

C9_Witness ==
    /\ InNN
    /\ pc = "done"
    /\ layer_sizes = <<4, 6, 6, 3>>
    /\ Sections(timeline) = NNPhases

----------------------------------------------------------------------------
(* Validation of the layout's count.                                       *)

----------------------------------------------------------------------------
(* Mismatched counts.                                                      *)

----------------------------------------------------------------------------
(* Determinism.                                                            *)

IsPrefix(s, t) == Len(s) <= Len(t) /\ \A k \in 1..Len(s) : s[k] = t[k]

\* The calls of the one run of GradientDescentVisualization.
GDRun ==
    <<Call("title", "Write(title)", 0), Call("title", "wait", 0),
      Call("title", "title.animate.to_edge", 0),
      Call("axes", "Create(axes,loss_curve)", 0), Call("axes", "wait", 0),
      Call("ball", "add(ball)", 0), Call("ball", "Write(explanation)", 0),
      Call("descent", "x_tracker.animate.set_value", 1),
      Call("descent", "x_tracker.animate.set_value", 2),
      Call("descent", "x_tracker.animate.set_value", 3),
      Call("descent", "x_tracker.animate.set_value", 4),
      Call("success", "Write(success)", 0), Call("success", "wait", 0)>>

\* The arm each of the five days takes: the list and the index shown.
KCArms ==
    <<<<"new_patterns", 0>>, <<"new_gotchas", 0>>, <<"new_patterns", 1>>,
      <<"new_gotchas", 1>>, <<"new_patterns", 2>>>>

KCDayCalls(d) ==
    <<Call("days", "FadeIn(day_group)", d),
      Call("days", "GrowArrow(arrow)", d),
      Call("days",
           IF KCArms[d + 1][1] = "new_patterns"
               THEN "FadeIn(new_patterns[pattern_idx])"
               ELSE "FadeIn(new_gotchas[gotcha_idx])",
           KCArms[d + 1][2]),
      Call("days", "FadeOut(arrow)", d)>>

\* The calls of the one run of KnowledgeCompoundingScene on its five days.
KCRun ==
    <<Call("title", "Write(title)", 0),
      Call("file", "GrowFromCenter(file_box)", 0),
      Call("file", "FadeIn(initial_content)", 0),
      Call("timeline_title", "Write(timeline_title)", 0)>>
        \o KCDayCalls(0) \o KCDayCalls(1) \o KCDayCalls(2) \o KCDayCalls(3)
        \o KCDayCalls(4)
        \o <<Call("message", "Write(message)", 0), Call("message", "wait", 0)>>

\* The inputs the scripts are written with.
ShippedInput ==
    /\ layer_sizes = default_layer_sizes
    /\ nodes_data = default_nodes_data
    /\ days_data = default_days_data

\* C12: a scene has one run.  The calls of GradientDescentVisualization and
\* of KnowledgeCompoundingScene are at every moment the first calls of one
\* fixed list (with the early exit after update 4, and the arms Pattern,
\* Gotcha, Pattern, Gotcha, Pattern) and are all of it at the end; with the
\* inputs as written no scene ends in an error; and in no state can the
\* loop both go on and be left, or a day take two different arms.
C12_OneRun ==
    /\ InGD =>
          /\ IsPrefix(timeline, GDRun)
          /\ pc = "done" => timeline = GDRun
          /\ x_history # <<>> => IsPrefix(x_history, C1_Expected)
          /\ ~(ENABLED (GradientDescentVisualization /\ pc' = "gd_loop")
                /\ ENABLED (GradientDescentVisualization /\ pc' = "gd_success"))
    /\ (InKC /\ days_data = default_days_data) =>
          /\ IsPrefix(timeline, KCRun)
          /\ pc = "done" => timeline = KCRun
          /\ \A k \in 1..Len(shown) :
                <<shown[k].list, shown[k].idx>> = KCArms[k] /\ shown[k].day = k - 1
    /\ InKC =>
          /\ ~(ENABLED (KC_AddItem /\ pattern_idx' # pattern_idx)
                /\ ENABLED (KC_AddItem /\ gotcha_idx' # gotcha_idx))
          /\ ~(ENABLED (KC_AddItem /\ shown' # shown)
                /\ ENABLED (KC_AddItem /\ shown' = shown))
    /\ ShippedInput => error = "none"

C12_Witness ==
    /\ InKC
    /\ days_data = default_days_data
    /\ pc = "done"
    /\ timeline = KCRun
    /\ Len(shown) = 5

----------------------------------------------------------------------------
(* The flow dot of CompoundLoopScene.                                      *)

\* The number of moves the dot has made.
DotMoves ==
    Cardinality({k \in 1..Len(timeline) :
                    timeline[k].anim = "dot.animate.move_to"})

\* The flow loop is over.
FlowDone == InCL /\ pc \in {"cl_dot_out", "cl_repeat", "cl_final_wait", "done"}

\* C13: the dot starts on node 0; after m moves it is on node m mod n (n
\* the number of nodes, 5 in the script), each move taking it from node i to
\* node (i+1) mod n; it makes 2n moves in all (10 in the script) and is on
\* node 0 again when it is faded out.
C13_DotGoesRound ==
    /\ [](  (InCL /\ dot # <<>>) =>
                LET n == Len(nodes)
                IN  /\ n >= 1
                    /\ DotMoves <= 2 * n
                    /\ dot = nodes[(DotMoves % n) + 1].center
                    /\ pc \in {"cl_highlight", "cl_move"} =>
                          DotMoves = lap * n + i /\ i < n /\ lap < 2
                    /\ FlowDone => DotMoves = 2 * n /\ dot = nodes[1].center
                    /\ nodes_data = default_nodes_data =>
                          n = 5 /\ (FlowDone => DotMoves = 10))
    /\ [][(InCL /\ dot # <<>> /\ dot' # dot) =>
              /\ pc = "cl_move"
              /\ dot = nodes[i + 1].center
              /\ dot' = nodes[((i + 1) % Len(nodes)) + 1].center]_vars
    /\ [][(InCL /\ dot = <<>> /\ dot' # <<>>) => dot' = nodes[1].center]_vars

C13_Witness ==
    /\ FlowDone
    /\ nodes_data = default_nodes_data
    /\ DotMoves = 10
    /\ dot = nodes[1].center
    /\ M("dot") \notin mobjects

----------------------------------------------------------------------------
(* The highlight of CompoundLoopScene.                                     *)

\* The nodes (1-based) that have the accent fill.
Highlighted == {k \in 1..Len(nodes) : nodes[k].fill_color = "accent"}

\* C14: at most one node has the accent fill, and it is the node the dot is
\* on; the step that moves the dot off a node gives that node the primary
\* fill with opacity 0.8 back, and when the loop is over every node has it.
C14_OneHighlight ==
    /\ [](InCL =>
            /\ Cardinality(Highlighted) <= 1
            /\ \A k \in Highlighted :
                  /\ pc = "cl_move"
                  /\ k = i + 1
                  /\ dot = nodes[k].center
                  /\ nodes[k].fill_opacity = R(9, 10)
            /\ \A k \in 1..Len(nodes) :
                  k \notin Highlighted =>
                      /\ nodes[k].fill_color = "primary"
                      /\ nodes[k].fill_opacity = R(8, 10)
            /\ pc = "cl_move" => Highlighted = {i + 1}
            /\ FlowDone => Highlighted = {})
    /\ [][(InCL /\ dot # <<>> /\ timeline' # timeline /\ pc = "cl_move") =>
              /\ Highlighted = {i + 1}
              /\ nodes'[i + 1].fill_color = "primary"
              /\ nodes'[i + 1].fill_opacity = R(8, 10)
              /\ \A k \in 1..Len(nodes) : nodes'[k].fill_color = "primary"]_vars

C14_Witness ==
    /\ InCL
    /\ nodes_data = default_nodes_data
    /\ pc = "cl_move"
    /\ lap = 1
    /\ Highlighted = {3}
    /\ dot = nodes[3].center

----------------------------------------------------------------------------
(* The order of animate_forward_pass.                                      *)

IsForwardPass(c) == c.phase = "forward_pass"

\* The calls animate_forward_pass has made.
FPCalls == SelectSeq(timeline, IsForwardPass)

\* The calls of the loop for the first n pairs of adjacent layers.
RECURSIVE FPPairs(_)
FPPairs(n) ==
    IF n = 0 THEN <<>>
    ELSE FPPairs(n - 1) \o
            <<Call("forward_pass", "add(signals)", n - 1),
              Call("forward_pass", "signal.animate.move_to", n - 1),
              Call("forward_pass",
                   "LaggedStart(Transform(layers[layer_idx+1]))", n - 1)>>

\* The calls of a forward pass over n layers.
FPRun(n) ==
    <<Call("forward_pass", "Write(text)", 0),
      Call("forward_pass", "LaggedStart(Transform(layers[0]))", 0)>>
        \o FPPairs(IF n > 0 THEN n - 1 ELSE 0)
        \o <<Call("forward_pass", "FadeOut(text)", 0)>>

\* The number of layers animate_forward_pass has activated.
Activations ==
    Cardinality({k \in 1..Len(FPCalls) :
        FPCalls[k].anim \in {"LaggedStart(Transform(layers[0]))",
                             "LaggedStart(Transform(layers[layer_idx+1]))"}})

IsActivated(neuron) == neuron.fill_opacity = R(8, 10) /\ neuron.stroke_width = 3

\* C15: the forward pass activates the layers in index order, each once,
\* the input layer first; layer k+1 after the signals of the pair (k, k+1)
\* have moved and before a signal of the pair (k+1, k+2) is created; the
\* text fades out after the output layer was activated.
C15_LayersInOrder ==
    InNN =>
        LET n == Len(network.layers)
        IN  /\ IsPrefix(FPCalls, FPRun(n))
            /\ Activations <= n
            /\ \A l \in 1..n : \A m \in 1..Len(network.layers[l]) :
                  IsActivated(network.layers[l][m]) <=> l <= Activations
            /\ M("fp_text") \in mobjects =>
                  pc \in {"nn_fp_input", "nn_fp_signals", "nn_fp_move",
                          "nn_fp_activate", "nn_fp_out"}
            /\ pc \in {"nn_fp_signals", "nn_fp_move", "nn_fp_activate"} =>
                  Activations = layer_idx + 1
            /\ (FPCalls # <<>> /\ FPCalls[Len(FPCalls)].anim = "FadeOut(text)") =>
                  /\ FPCalls = FPRun(n)
                  /\ Activations = n
                  /\ M("fp_text") \notin mobjects

C15_Witness ==
    /\ InNN
    /\ layer_sizes = <<4, 6, 6, 3>>
    /\ pc = "nn_or_text"
    /\ FPCalls = FPRun(4)
    /\ Activations = 4

----------------------------------------------------------------------------
(* The signal dots of animate_forward_pass.                                *)

\* The signal dots in the scene.
SignalMobs == {mob \in mobjects : mob.k = "signal"}

----------------------------------------------------------------------------
(* The items of KnowledgeCompoundingScene.                                 *)

\* The prepared list an item was taken from.
ListOf(item) == IF item.list = "new_patterns" THEN new_patterns ELSE new_gotchas

\* The items among the first n shown that come from the list `list'.
ShownOf(list, n) == {k \in 1..n : shown[k].list = list}

\* The days the loop is done with.
DaysDone ==
    IF pc \in {"kc_title", "kc_file_box", "kc_initial", "kc_timeline_title"}
        THEN 0
    ELSE IF pc \in {"kc_day", "kc_arrow", "kc_item"} THEN day
    ELSE IF pc = "kc_arrow_out" THEN day + 1
    ELSE Len(days_data)

\* C17: every one of the five days adds one item, a Pattern day the next
\* unused pattern and a Gotcha day the next unused gotcha, in list order;
\* pattern_idx <= 3 and gotcha_idx <= 2, no list is indexed out of range;
\* after d days pattern_idx + gotcha_idx = d, and 3 and 2 at the end.
C17_OneItemPerDay ==
    InKC =>
        /\ pattern_idx \in 0..3
        /\ gotcha_idx \in 0..2
        /\ Len(new_patterns) = 3
        /\ Len(new_gotchas) = 2
        /\ Cardinality(ShownOf("new_patterns", Len(shown))) = pattern_idx
        /\ Cardinality(ShownOf("new_gotchas", Len(shown))) = gotcha_idx
        /\ Len(shown) = pattern_idx + gotcha_idx
        /\ \A k \in 1..Len(shown) :
              /\ shown[k].idx = Cardinality(ShownOf(shown[k].list, k - 1))
              /\ shown[k].idx + 1 \in DOMAIN ListOf(shown[k])
              /\ shown[k].text = ListOf(shown[k])[shown[k].idx + 1]
              /\ contains(days_data[shown[k].day + 1].learning,
                          IF shown[k].list = "new_patterns"
                              THEN "Pattern" ELSE "Gotcha")
        /\ \A k \in 0..2 : Mob("pattern", k, 0) \in mobjects <=> k < pattern_idx
        /\ \A k \in 0..1 : Mob("gotcha", k, 0) \in mobjects <=> k < gotcha_idx
        /\ days_data = default_days_data =>
              /\ error = "none"
              /\ Len(days_data) = 5
              /\ pattern_idx + gotcha_idx = DaysDone
              /\ \A k \in 1..Len(shown) : shown[k].day = k - 1
              /\ DaysDone = 5 => pattern_idx = 3 /\ gotcha_idx = 2

C17_Witness ==
    /\ InKC
    /\ days_data = default_days_data
    /\ pc = "kc_message"
    /\ pattern_idx = 3
    /\ gotcha_idx = 2
    /\ [k \in 1..5 |-> shown[k].list] =
          <<"new_patterns", "new_gotchas", "new_patterns", "new_gotchas",
            "new_patterns">>

----------------------------------------------------------------------------
(* The sections of FullExplainerScene.                                     *)

\* construct() is about to show the first element of a section.
FESectionStarts ==
    pc \in {"fe_title", "fe_problem_title", "fe_solution_title",
            "fe_insight_title"}

\* The elements the section construct() is in may have put on the scene.
FESectionElements ==
    IF pc \in {"fe_title", "fe_subtitle", "fe_title_wait", "fe_title_out"}
        THEN title_shown
    ELSE IF pc \in {"fe_problem_title", "fe_workflow", "fe_work_hours",
                    "fe_problem_wait1", "fe_night", "fe_problem_wait2",
                    "fe_problem_out"}
        THEN problem_shown
    ELSE IF pc \in {"fe_solution_title", "fe_cycle", "fe_progress",
                    "fe_solution_wait", "fe_solution_out"}
        THEN solution_shown
    ELSE IF pc \in {"fe_insight_title", "fe_insight_text", "fe_compound",
                    "fe_insight_wait", "fe_fade_all"}
        THEN insight_shown
    ELSE final_shown

\* C18: when a section shows its first element every element of the
\* sections before it has been faded out; the scene is empty when the final
\* frame is written, and the final frame holds the two closing texts only.
C18_SectionsCleared ==
    InFE =>
        /\ error = "none"
        /\ FESectionStarts => mobjects = {}
        /\ mobjects \subseteq FESectionElements
        /\ pc = "fe_fade_all" => mobjects = insight_shown
        /\ pc = "fe_final" => mobjects = {}
        /\ pc \in {"fe_final_wait", "done"} => mobjects = final_shown

C18_Witness ==
    /\ InFE
    /\ pc = "done"
    /\ mobjects = {M("final")}
    /\ \E k \in 1..Len(timeline) : timeline[k].anim = "FadeOut(self.mobjects)"
    /\ Sections(timeline) = <<"title", "problem", "solution", "insight", "final">>

----------------------------------------------------------------------------
(* The ball of GradientDescentVisualization.                               *)

\* lo <= x <= hi
Between(lo, x, hi) == ~Less(x, lo) /\ ~Less(hi, x)

\* C19: every update leaves x strictly smaller than before and strictly
\* positive, so x is in (0, 2], inside the plotted range [-2.5, 2.5], and
\* the height x^2 + 1 of the ball is in [1, 5], inside the y range [0, 10].
C19_BallStaysOnCurve ==
    InGD =>
        /\ Less(Z(0), x_tracker)
        /\ Between(Z(0), x_tracker, Z(2))
        /\ Between(loss_curve_x_range[1], x_tracker, loss_curve_x_range[2])
        /\ Between(axes_x_range[1], x_tracker, axes_x_range[2])
        /\ Between(Z(1), loss(x_tracker), Z(5))
        /\ Between(axes_y_range[1], loss(x_tracker), axes_y_range[2])
        /\ x_history # <<>> => x_tracker = x_history[Len(x_history)]
        /\ \A n \in 2..Len(x_history) :
              /\ Less(x_history[n], x_history[n - 1])
              /\ Less(Z(0), x_history[n])

C19_Witness ==
    /\ InGD
    /\ pc = "gd_loop"
    /\ Len(x_history) = 3
    /\ x_tracker = R(32, 100)
    /\ Less(x_history[3], x_history[2])
    /\ loss(x_tracker) = R(11024, 10000)

=============================================================================
